---- MODULE Spec2Model ----
(***************************************************************************)
(* Model of the self-improving coding agent (src/main.py): CodeAnalyzer,   *)
(* CodeOptimizer, AgentLearner and the CodingAgent pipeline.               *)
(*                                                                         *)
(* A Python str is a TLA+ string; Len, SubSeq and \o act on it character   *)
(* by character.  A Python float obtained by dividing two small integers   *)
(* is the fraction in lowest terms (see Fraction).                         *)
(***************************************************************************)
EXTENDS Integers, Sequences, FiniteSets, TLC

(***************************************************************************)
(* Bounds of the model.                                                    *)
(***************************************************************************)
\* longest text, in pieces, handed to a method called on its own
MaxPieces == 3
\* longest text, in pieces, handed to improve_code
MaxInputPieces == 1
\* number of improve_code calls made on the one agent
MaxCalls == 2

(***************************************************************************)
(* Python str primitives.                                                  *)
(***************************************************************************)
Ch(s, i) == SubSeq(s, i, i)

\* str.isspace / regex \s, restricted to the characters a TLA+ string holds
Whitespace == {" ", "\t", "\n", "\r", "\f"}

Letters == "abcdefghijklmnopqrstuvwxyzABCDEFGHIJKLMNOPQRSTUVWXYZ0123456789_"

\* regex \w
WordChars == {Ch(Letters, i) : i \in 1..Len(Letters)}

\* the ASCII characters 32 (space) to 95 and 97 to 126, in code point order
AsciiLow == " !\"#$%&'()*+,-./0123456789:;<=>?@ABCDEFGHIJKLMNOPQRSTUVWXYZ[\\]^_"

AsciiHigh == "abcdefghijklmnopqrstuvwxyz{|}~"

\* ord(c): the code point by which str comparison orders characters
Ord == [c \in {Ch(AsciiLow, i) : i \in 1..Len(AsciiLow)}
               \cup {Ch(AsciiHigh, i) : i \in 1..Len(AsciiHigh)}
               \cup {"\t", "\f", "\r"} |->
          IF c = "\t" THEN 9
          ELSE IF c = "\f" THEN 12
          ELSE IF c = "\r" THEN 13
          ELSE IF \E i \in 1..Len(AsciiLow) : Ch(AsciiLow, i) = c
               THEN 31 + (CHOOSE i \in 1..Len(AsciiLow) : Ch(AsciiLow, i) = c)
               ELSE 96 + (CHOOSE i \in 1..Len(AsciiHigh) : Ch(AsciiHigh, i) = c)]

\* a < b on str: lexicographic by code point, a proper prefix first
RECURSIVE StrLess(_, _)
StrLess(a, b) ==
  IF b = "" THEN FALSE
  ELSE IF a = "" THEN TRUE
  ELSE IF Head(a) = Head(b) THEN StrLess(Tail(a), Tail(b))
  ELSE Ord[Head(a)] < Ord[Head(b)]

\* s.startswith(p)
StartsWith(s, p) == Len(s) >= Len(p) /\ SubSeq(s, 1, Len(p)) = p

\* s[i:].startswith(p), i counted from 1
StartsWithAt(s, i, p) == i + Len(p) - 1 <= Len(s) /\ SubSeq(s, i, i + Len(p) - 1) = p

\* p in s
Contains(s, p) == \E i \in 1..(Len(s) - Len(p) + 1) : StartsWithAt(s, i, p)

Min(S) == CHOOSE x \in S : \A y \in S : x <= y

\* first index >= i of s whose character is not in class (Len(s) + 1 if none)
SpanEnd(s, i, class) ==
  Min({j \in i..(Len(s) + 1) : j > Len(s) \/ Ch(s, j) \notin class})

\* first index >= i of s whose character is in class (Len(s) + 1 if none)
SkipTo(s, i, class) ==
  Min({j \in i..(Len(s) + 1) : j > Len(s) \/ Ch(s, j) \in class})

\* code.split('\n'): the lines of the text, at least one
RECURSIVE SplitLines(_)
SplitLines(s) ==
  LET i == SkipTo(s, 1, {"\n"})
  IN  IF i > Len(s) THEN <<s>>
      ELSE <<SubSeq(s, 1, i - 1)>> \o SplitLines(SubSeq(s, i + 1, Len(s)))

\* '\n'.join(lines)
RECURSIVE JoinLines(_)
JoinLines(lines) ==
  IF lines = <<>> THEN ""
  ELSE IF Len(lines) = 1 THEN lines[1]
  ELSE lines[1] \o "\n" \o JoinLines(Tail(lines))

\* l.strip()
Strip(l) ==
  LET keep == {i \in 1..Len(l) : Ch(l, i) \notin Whitespace}
  IN  IF keep = {} THEN ""
      ELSE SubSeq(l, CHOOSE i \in keep : \A j \in keep : i <= j,
                     CHOOSE i \in keep : \A j \in keep : i >= j)

\* code.split(): the maximal runs of non-whitespace characters, in order
RECURSIVE SplitWords(_, _)
SplitWords(s, i) ==
  LET b == SpanEnd(s, i, Whitespace)
      e == SkipTo(s, b, Whitespace)
  IN  IF b > Len(s) THEN <<>>
      ELSE <<SubSeq(s, b, e - 1)>> \o SplitWords(s, e)

\* len(code.split('\n'))
LineCount(s) == Len(SplitLines(s))

\* a Python float that is the quotient of two integers, d > 0
RECURSIVE Gcd(_, _)
Gcd(a, b) == IF b = 0 THEN a ELSE Gcd(b, a % b)

Fraction(n, d) ==
  LET g == Gcd(IF n < 0 THEN -n ELSE n, d)
  IN  [num |-> n \div g, den |-> d \div g]

(***************************************************************************)
(* CodeAnalyzer                                                            *)
(***************************************************************************)
\* CodeAnalyzer.__init__: self.metrics
InitMetrics == [complexity |-> 0, efficiency |-> 0, readability |-> 0]

\* 'if' in l or 'for' in l
IsBranchLine(l) == Contains(l, "if") \/ Contains(l, "for")

\* l.strip() and not l.strip().startswith('#')
IsCodeLine(l) == Strip(l) # "" /\ ~StartsWith(Strip(l), "#")

\* analyze with the comment test on the line as it stands, not stripped
analyze_unstripped(m, code) ==
  LET lines == SplitLines(code)
      IsCode(l) == Strip(l) # "" /\ ~StartsWith(l, "#")
  IN  [m EXCEPT !.complexity = Len(SelectSeq(lines, IsBranchLine)),
                !.readability = Len(SelectSeq(lines, IsCode))]

\* CodeAnalyzer.analyze: self.metrics after the call on code
analyze(m, code) ==
  LET lines == SplitLines(code)
  IN  [m EXCEPT !.complexity = Len(SelectSeq(lines, IsBranchLine)),
                !.readability = Len(SelectSeq(lines, IsCodeLine))]

WildcardMsg == "Replace 'import *' with specific imports"
IndentMsg == "Use consistent indentation"
TodoMsg == "Address TODO/FIXME comments"

\* suggest_improvements with the checks chained by elif
suggest_improvements_elif(code) ==
  IF Contains(code, "import *") THEN <<WildcardMsg>>
  ELSE IF Contains(code, "  ") THEN <<IndentMsg>>
  ELSE IF Contains(code, "TODO") \/ Contains(code, "FIXME") THEN <<TodoMsg>>
  ELSE <<>>

\* CodeAnalyzer.suggest_improvements
suggest_improvements(code) ==
  LET s1 == IF Contains(code, "import *") THEN <<WildcardMsg>> ELSE <<>>
      s2 == IF Contains(code, "  ") THEN Append(s1, IndentMsg) ELSE s1
      s3 == IF Contains(code, "TODO") \/ Contains(code, "FIXME")
            THEN Append(s2, TodoMsg) ELSE s2
  IN  s3

(***************************************************************************)
(* CodeOptimizer                                                           *)
(***************************************************************************)
NoMatch == [ok |-> FALSE, end |-> 0, g1 |-> "", g2 |-> ""]

\* One attempt of the pattern  for\s+(\w+)\s+in\s+range\(len\((\w+)\)\)  at
\* index p of s.  Each repetition is followed by a character outside its
\* class, so the greedy longest run is the only run that can match and no
\* backtracking is involved.  sp is the class \s stands for.
MatchLoopAt(s, p, sp) ==
  IF ~StartsWithAt(s, p, "for") THEN NoMatch
  ELSE LET a == p + 3
           b == SpanEnd(s, a, sp)
           c == SpanEnd(s, b, WordChars)
           d == SpanEnd(s, c, sp)
           e == d + 2
           f == SpanEnd(s, e, sp)
           g == f + 10
           h == SpanEnd(s, g, WordChars)
       IN  IF /\ b > a
              /\ c > b
              /\ d > c
              /\ StartsWithAt(s, d, "in")
              /\ f > e
              /\ StartsWithAt(s, f, "range(len(")
              /\ h > g
              /\ StartsWithAt(s, h, "))")
           THEN [ok |-> TRUE, end |-> h + 2,
                 g1 |-> SubSeq(s, b, c - 1), g2 |-> SubSeq(s, g, h - 1)]
           ELSE NoMatch

\* re.sub(pattern, r'for \1 in \2', s) from index p on: the text up to the
\* leftmost match is kept, the match is replaced and the scan goes on
\* behind it
RECURSIVE SubLoops(_, _, _)
SubLoops(s, p, sp) ==
  LET starts == {q \in p..Len(s) : MatchLoopAt(s, q, sp).ok}
  IN  IF starts = {} THEN SubSeq(s, p, Len(s))
      ELSE LET q == Min(starts)
               m == MatchLoopAt(s, q, sp)
           IN  SubSeq(s, p, q - 1) \o "for " \o m.g1 \o " in " \o m.g2
                 \o SubLoops(s, m.end, sp)

\* optimize_loops with blanks and tabs, not newlines, between the tokens
optimize_loops_one_line(code) == SubLoops(code, 1, {" ", "\t"})

\* CodeOptimizer.optimize_loops
optimize_loops(code) == SubLoops(code, 1, Whitespace)

\* line.startswith('import ') or line.startswith('from ')
IsImport(line) == StartsWith(line, "import ") \/ StartsWith(line, "from ")

IsOther(line) == ~IsImport(line)

\* the place of x in a sorted list: behind every element not greater than x
RECURSIVE Insert(_, _)
Insert(sorted, x) ==
  IF sorted = <<>> THEN <<x>>
  ELSE IF StrLess(x, Head(sorted)) THEN <<x>> \o sorted
  ELSE <<Head(sorted)>> \o Insert(Tail(sorted), x)

\* list.sort() on str: ascending, stable
RECURSIVE Sort(_)
Sort(l) ==
  IF l = <<>> THEN <<>>
  ELSE Insert(Sort(SubSeq(l, 1, Len(l) - 1)), l[Len(l)])

\* optimize_imports without imports.sort()
optimize_imports_unsorted(code) ==
  LET lines == SplitLines(code)
  IN  JoinLines(SelectSeq(lines, IsImport) \o SelectSeq(lines, IsOther))

\* CodeOptimizer.optimize_imports
optimize_imports(code) ==
  LET lines == SplitLines(code)
      imports == SelectSeq(lines, IsImport)
      other_lines == SelectSeq(lines, IsOther)
  IN  JoinLines(Sort(imports) \o other_lines)

(***************************************************************************)
(* AgentLearner                                                            *)
(***************************************************************************)
\* extract_patterns keeping every count
extract_patterns_all(code) ==
  LET words == SplitWords(code, 1)
  IN  [w \in {words[i] : i \in 1..Len(words)}
         |-> Cardinality({i \in 1..Len(words) : words[i] = w})]

\* AgentLearner.extract_patterns: word -> count, for the counts above 1
extract_patterns(code) ==
  LET words == SplitWords(code, 1)
      count(w) == Cardinality({i \in 1..Len(words) : words[i] = w})
  IN  [w \in {words[i] : i \in {j \in 1..Len(words) : count(words[j]) > 1}}
         |-> count(w)]

\* log_improvement keeping the latest record only
log_improvement_latest(history, before, after, improvement_type, now) ==
  <<[timestamp |-> now,
     type |-> improvement_type,
     before_lines |-> LineCount(before),
     after_lines |-> LineCount(after)]>>

\* log_improvement with the two texts taken for each other
log_improvement_swapped(history, before, after, improvement_type, now) ==
  Append(history, [timestamp |-> now,
                   type |-> improvement_type,
                   before_lines |-> LineCount(after),
                   after_lines |-> LineCount(before)])

\* AgentLearner.log_improvement: improvement_history after the call
log_improvement(history, before, after, improvement_type, now) ==
  Append(history, [timestamp |-> now,
                   type |-> improvement_type,
                   before_lines |-> LineCount(before),
                   after_lines |-> LineCount(after)])

\* sum(reductions)
RECURSIVE SumReductions(_)
SumReductions(history) ==
  IF history = <<>> THEN 0
  ELSE (Head(history).before_lines - Head(history).after_lines)
         + SumReductions(Tail(history))

\* _calculate_avg_reduction with floor division
calculate_avg_reduction_floor(history) ==
  IF history = <<>> THEN Fraction(0, 1)
  ELSE Fraction(SumReductions(history) \div Len(history), 1)

\* AgentLearner._calculate_avg_reduction
calculate_avg_reduction(history) ==
  IF history = <<>> THEN Fraction(0, 1)
  ELSE Fraction(SumReductions(history), Len(history))

\* AgentLearner.get_learning_stats
get_learning_stats(history, learned) ==
  [total_improvements |-> Len(history),
   pattern_count |-> Cardinality(DOMAIN learned),
   avg_reduction |-> calculate_avg_reduction(history)]

(***************************************************************************)
(* The texts the methods are called on.                                    *)
(***************************************************************************)
\* fragments of source text; a text is a concatenation of fragments
Pieces == {"import b\n", "from a import *\n", "  # TODO\n", "x = 1\n",
           "for\ni", "\nin\n", "for i in ", "range(len(xs))", " xs", "FIXME"}

RECURSIVE Cat(_)
Cat(n) == IF n = 0 THEN {""}
          ELSE LET shorter == Cat(n - 1)
               IN  shorter \cup {p \o t : p \in Pieces, t \in shorter}

\* the snippet of main()
DemoCode == "\ndef calc(x,y):\n    if x>0:\n        return x+y\n    else:\n        return x-y\n"

\* texts with a loop on one line and on several, imports out of order,
\* repeated words, a comment and a blank line
Snippets == {"", " \n\t ", DemoCode,
           "for i in range(len(xs)):\n    x = xs[i]",
           "for  i\nin range(len(xs)) xs",
           "import b\nx = 1\nfrom a import *\n",
           "x = 1\nx = 1\n  # TODO\n"}

\* the texts given to improve_code
Inputs == Cat(MaxInputPieces) \cup Snippets

\* the texts given to a method called on its own
Texts == Cat(MaxPieces) \cup Snippets

\* the readings of datetime.now().isoformat()
Timestamps == {"2024-01-01T00:00:00", "2024-01-01T00:00:01"}

\* the value of a variable that holds nothing
None == [none |-> TRUE]

(***************************************************************************)
(* State.                                                                  *)
(***************************************************************************)
VARIABLES
  metrics,              \* CodeAnalyzer.metrics
  issues,               \* CodeAnalyzer.issues
  learned_patterns,     \* AgentLearner.learned_patterns
  improvement_history,  \* AgentLearner.improvement_history
  pc,                   \* the statement of improve_code to run next
  original_code,        \* locals of improve_code
  code,
  analysis,
  suggestions,
  patterns,
  returned,             \* the value the last call returned to its caller
  calls,                \* number of improve_code calls that have returned
  trace,                \* the methods the running improve_code has called
  fn,                   \* the method called on its own, with its
  arg,                  \* argument,
  ret,                  \* result and
  again                 \* the result of calling it on its result

agent == <<metrics, issues, learned_patterns, improvement_history>>
frame == <<pc, original_code, code, analysis, suggestions, patterns>>
unit == <<fn, arg, ret, again>>
vars == <<agent, frame, returned, calls, trace, unit>>

\* CodingAgent.__init__ and nothing called yet
InitAgent ==
  /\ metrics = InitMetrics
  /\ issues = <<>>
  /\ learned_patterns = <<>>
  /\ improvement_history = <<>>
  /\ pc = "idle"
  /\ original_code = None
  /\ code = None
  /\ analysis = None
  /\ suggestions = None
  /\ patterns = None
  /\ returned = None
  /\ calls = 0
  /\ trace = <<>>

Init ==
  /\ InitAgent
  /\ fn = "none"
  /\ arg = None
  /\ ret = None
  /\ again = None

(***************************************************************************)
(* CodingAgent.improve_code, statement by statement.                       *)
(***************************************************************************)
\* improve_code(code) is entered: original_code = code.  The caller has let
\* go of what the call before returned.
Call ==
  /\ pc = "idle"
  /\ calls < MaxCalls
  /\ \E T \in Inputs :
       /\ original_code' = T
       /\ code' = T
  /\ pc' = "analyze"
  /\ returned' = None
  /\ trace' = <<>>
  /\ UNCHANGED <<agent, analysis, suggestions, patterns, calls, unit>>

\* analysis = self.analyzer.analyze(code)
Analyze ==
  /\ pc = "analyze"
  /\ metrics' = analyze(metrics, code)
  /\ analysis' = [metrics |-> metrics', issues |-> issues]
  /\ pc' = "suggest"
  /\ trace' = Append(trace, "analyze")
  /\ UNCHANGED <<issues, learned_patterns, improvement_history, original_code,
                 code, suggestions, patterns, returned, calls, unit>>

\* suggestions = self.analyzer.suggest_improvements(code)
Suggest ==
  /\ pc = "suggest"
  /\ suggestions' = suggest_improvements(code)
  /\ pc' = "optimize_loops"
  /\ trace' = Append(trace, "suggest_improvements")
  /\ UNCHANGED <<agent, original_code, code, analysis, patterns, returned,
                 calls, unit>>

\* code = self.optimizer.optimize_loops(code)
OptimizeLoops ==
  /\ pc = "optimize_loops"
  /\ code' = optimize_loops(code)
  /\ pc' = "optimize_imports"
  /\ trace' = Append(trace, "optimize_loops")
  /\ UNCHANGED <<agent, original_code, analysis, suggestions, patterns,
                 returned, calls, unit>>

\* code = self.optimizer.optimize_imports(code)
OptimizeImports ==
  /\ pc = "optimize_imports"
  /\ code' = optimize_imports(code)
  /\ pc' = "extract_patterns"
  /\ trace' = Append(trace, "optimize_imports")
  /\ UNCHANGED <<agent, original_code, analysis, suggestions, patterns,
                 returned, calls, unit>>

\* the patterns taken from the text as it came in
ExtractPatternsOfOriginal ==
  /\ pc = "extract_patterns"
  /\ patterns' = extract_patterns(original_code)
  /\ pc' = "log_improvement"
  /\ trace' = Append(trace, "extract_patterns")
  /\ UNCHANGED <<agent, original_code, code, analysis, suggestions, returned,
                 calls, unit>>

\* patterns = self.learner.extract_patterns(code)
ExtractPatterns ==
  /\ pc = "extract_patterns"
  /\ patterns' = extract_patterns(code)
  /\ pc' = "log_improvement"
  /\ trace' = Append(trace, "extract_patterns")
  /\ UNCHANGED <<agent, original_code, code, analysis, suggestions, returned,
                 calls, unit>>

\* self.learner.log_improvement(original_code, code, "full_improvement")
LogImprovement ==
  /\ pc = "log_improvement"
  /\ \E now \in Timestamps :
       improvement_history' =
         log_improvement(improvement_history, original_code, code,
                         "full_improvement", now)
  /\ pc' = "return"
  /\ trace' = Append(trace, "log_improvement")
  /\ UNCHANGED <<metrics, issues, learned_patterns, original_code, code,
                 analysis, suggestions, patterns, returned, calls, unit>>

\* return {...}: the report is built, with the learning stats of this
\* moment, and handed to the caller; the locals are gone
Return ==
  /\ pc = "return"
  /\ returned' = [improved_code |-> code,
                  analysis |-> analysis,
                  suggestions |-> suggestions,
                  patterns |-> patterns,
                  learning_stats |->
                    get_learning_stats(improvement_history, learned_patterns)]
  /\ calls' = calls + 1
  /\ pc' = "idle"
  /\ original_code' = None
  /\ code' = None
  /\ analysis' = None
  /\ suggestions' = None
  /\ patterns' = None
  /\ UNCHANGED <<agent, trace, unit>>

\* CodingAgent.get_performance_report
GetPerformanceReport ==
  /\ pc = "idle"
  /\ returned' = [name |-> "Self-Improving Coding Agent",
                  version |-> "0.1.0",
                  capabilities |-> <<"analyze", "optimize", "learn">>,
                  learning_stats |->
                    get_learning_stats(improvement_history, learned_patterns)]
  /\ UNCHANGED <<agent, frame, calls, trace, unit>>

Next ==
  \/ Call
  \/ Analyze
  \/ Suggest
  \/ OptimizeLoops
  \/ OptimizeImports
  \/ ExtractPatterns
  \/ LogImprovement
  \/ Return
  \/ GetPerformanceReport

Spec == Init /\ [][Next]_vars

(***************************************************************************)
(* Each method called on its own, on every text.                           *)
(***************************************************************************)
InitFn ==
  /\ InitAgent
  /\ fn = "none"
  /\ arg \in Texts
  /\ ret = None
  /\ again = None

FnAnalyze ==
  /\ fn = "none"
  /\ metrics' = analyze(metrics, arg)
  /\ ret' = [metrics |-> metrics', issues |-> issues]
  /\ fn' = "analyze"
  /\ UNCHANGED <<issues, learned_patterns, improvement_history, frame,
                 returned, calls, trace, arg, again>>

FnSuggestImprovements ==
  /\ fn = "none"
  /\ ret' = suggest_improvements(arg)
  /\ fn' = "suggest_improvements"
  /\ UNCHANGED <<agent, frame, returned, calls, trace, arg, again>>

FnOptimizeLoops ==
  /\ fn = "none"
  /\ ret' = optimize_loops(arg)
  /\ fn' = "optimize_loops"
  /\ UNCHANGED <<agent, frame, returned, calls, trace, arg, again>>

FnOptimizeImports ==
  /\ fn = "none"
  /\ ret' = optimize_imports(arg)
  /\ fn' = "optimize_imports"
  /\ UNCHANGED <<agent, frame, returned, calls, trace, arg, again>>

\* optimize_imports called on its own result
FnOptimizeImportsAgain ==
  /\ fn = "optimize_imports"
  /\ again' = optimize_imports(ret)
  /\ fn' = "optimize_imports_again"
  /\ UNCHANGED <<agent, frame, returned, calls, trace, arg, ret>>

FnExtractPatterns ==
  /\ fn = "none"
  /\ ret' = extract_patterns(arg)
  /\ fn' = "extract_patterns"
  /\ UNCHANGED <<agent, frame, returned, calls, trace, arg, again>>

NextFn ==
  \/ FnAnalyze
  \/ FnSuggestImprovements
  \/ FnOptimizeLoops
  \/ FnOptimizeImports
  \/ FnOptimizeImportsAgain
  \/ FnExtractPatterns

SpecFn == InitFn /\ [][NextFn]_vars

(***************************************************************************)
(* Properties of the agent (specification Spec).                           *)
(***************************************************************************)
IsReport(r) == "improved_code" \in DOMAIN r
IsPerformanceReport(r) == "capabilities" \in DOMAIN r

\* sum of one line count over the records of a history
RECURSIVE TotalBefore(_)
TotalBefore(h) == IF h = <<>> THEN 0 ELSE h[1].before_lines + TotalBefore(Tail(h))

RECURSIVE TotalAfter(_)
TotalAfter(h) == IF h = <<>> THEN 0 ELSE h[1].after_lines + TotalAfter(Tail(h))

\* number of lines of a text: one more than its newline characters
Lines(T) == 1 + Cardinality({i \in 1..Len(T) : Ch(T, i) = "\n"})

\* C1: the improvement history is append-only.  A step leaves it alone or
\* adds exactly one record at its end, every earlier record staying as and
\* where it was; between calls it holds one record per improve_code call
\* that has returned, and total_improvements, as get_learning_stats computes
\* it and as the report of improve_code and get_performance_report carry
\* it, is that number of calls.
C1_HistoryAppendOnly ==
  [][/\ \/ improvement_history' = improvement_history
        \/ /\ Len(improvement_history') = Len(improvement_history) + 1
           /\ SubSeq(improvement_history', 1, Len(improvement_history))
                = improvement_history
     /\ pc' = "idle" =>
          /\ Len(improvement_history') = calls'
          /\ get_learning_stats(improvement_history', learned_patterns')
               .total_improvements = calls'
          /\ returned' # None =>
               returned'.learning_stats.total_improvements = calls'
    ]_vars

\* two calls have returned and get_performance_report has been asked
C1_Witness ==
  /\ pc = "idle"
  /\ calls = 2
  /\ IsPerformanceReport(returned)
  /\ Len(improvement_history) = 2

Steps == <<"analyze", "suggest_improvements", "optimize_loops",
           "optimize_imports", "extract_patterns", "log_improvement">>

\* C2: improve_code(T) calls analyze, suggest_improvements, optimize_loops,
\* optimize_imports, extract_patterns and log_improvement in this order.
\* When it is about to return, the analysis and the suggestions are those of
\* T, the improved code is optimize_imports(optimize_loops(T)), the patterns
\* are those of the improved code, and the record logged counts the lines of
\* T as before_lines and those of the improved code as after_lines.
C2_PipelineDataFlow ==
  /\ pc # "idle" => trace = SubSeq(Steps, 1, Len(trace))
  /\ pc = "return" =>
       /\ trace = Steps
       /\ analysis.metrics = analyze(InitMetrics, original_code)
       /\ suggestions = suggest_improvements(original_code)
       /\ code = optimize_imports(optimize_loops(original_code))
       /\ patterns = extract_patterns(code)
       /\ LET rec == improvement_history[Len(improvement_history)]
          IN  /\ rec.before_lines = Lines(original_code)
              /\ rec.after_lines = Lines(code)

\* a call about to return whose optimized text differs from the original in
\* its lines, its repeated words and its suggestions
C2_Witness ==
  /\ pc = "return"
  /\ Lines(code) # Lines(original_code)
  /\ extract_patterns(original_code) # patterns
  /\ suggest_improvements(code) # suggestions

\* C3: after improve_code, pattern_count of the learning stats is the number
\* of entries of the patterns the call extracted.
C3_PatternCountIsLatestTable ==
  IsReport(returned) =>
    returned.learning_stats.pattern_count = Cardinality(DOMAIN returned.patterns)

\* C4: with an empty history the learning stats are 0, 0 and 0.0; otherwise
\* avg_reduction is the sum of before_lines - after_lines over the records
\* divided by the number of records.
C4_LearningStats ==
  LET h == improvement_history
      s == get_learning_stats(h, learned_patterns)
  IN  /\ h = <<>> =>
           s = [total_improvements |-> 0, pattern_count |-> 0,
                avg_reduction |-> [num |-> 0, den |-> 1]]
      /\ h # <<>> =>
           /\ s.avg_reduction.den > 0
           /\ s.avg_reduction.num * Len(h)
                = (TotalBefore(h) - TotalAfter(h)) * s.avg_reduction.den
      /\ IsPerformanceReport(returned) => returned.learning_stats = s

\* get_performance_report has answered on a history of two records whose
\* reductions differ and are not all zero
C4_Witness ==
  /\ IsPerformanceReport(returned)
  /\ Len(improvement_history) = 2
  /\ improvement_history[1].before_lines - improvement_history[1].after_lines
       # improvement_history[2].before_lines - improvement_history[2].after_lines
  /\ returned.learning_stats.avg_reduction.num > 0

\* C10: every record of the history has 1 <= after_lines <= before_lines,
\* and avg_reduction is never negative.
C10_LinesNeverGrow ==
  /\ \A i \in 1..Len(improvement_history) :
       /\ 1 <= improvement_history[i].after_lines
       /\ improvement_history[i].after_lines <= improvement_history[i].before_lines
  /\ calculate_avg_reduction(improvement_history).num >= 0

\* the history holds a record of the empty text and a record of a text that
\* optimize_loops made shorter
C10_Witness ==
  /\ pc = "idle"
  /\ \E i \in 1..Len(improvement_history) :
       improvement_history[i].before_lines = 1
  /\ \E i \in 1..Len(improvement_history) :
       improvement_history[i].after_lines < improvement_history[i].before_lines

(***************************************************************************)
(* Properties of the methods (specification SpecFn).                       *)
(***************************************************************************)
\* number of times x occurs in the list l
Occurrences(l, x) == Cardinality({i \in 1..Len(l) : l[i] = x})

\* C5: optimize_imports is idempotent, and its result is the import lines
\* of the text (those starting with 'import ' or 'from ') in ascending
\* lexicographic order followed by the other lines in their original order.
C5_OptimizeImportsIdempotent ==
  /\ fn = "optimize_imports_again" => again = ret
  /\ fn \in {"optimize_imports", "optimize_imports_again"} =>
       LET in == SplitLines(arg)
           out == SplitLines(ret)
           k == Cardinality({i \in 1..Len(in) : IsImport(in[i])})
       IN  /\ Len(out) = Len(in)
           /\ \A i \in 1..k :
                /\ IsImport(out[i])
                /\ Occurrences(SubSeq(out, 1, k), out[i]) = Occurrences(in, out[i])
           /\ \A i \in 1..k : \A j \in i..k : ~StrLess(out[j], out[i])
           /\ SubSeq(out, k + 1, Len(out)) = SelectSeq(in, IsOther)

\* optimize_imports was called twice on a text whose imports were out of
\* order with another line between them
C5_Witness ==
  /\ fn = "optimize_imports_again"
  /\ ret # arg
  /\ LET in == SplitLines(arg)
     IN  \E i, j, k \in 1..Len(in) :
           /\ i < j
           /\ j < k
           /\ IsImport(in[i])
           /\ ~IsImport(in[j])
           /\ IsImport(in[k])
           /\ StrLess(in[k], in[i])

\* C6: suggest_improvements(T) is the list [wildcard-import message,
\* indentation message, TODO/FIXME message] cut down to the messages whose
\* condition holds; each condition is judged on its own, and the list is
\* empty exactly when none holds.
C6_SuggestionsInFixedOrder ==
  fn = "suggest_improvements" =>
    LET wildcard == Contains(arg, "import *")
        indent == Contains(arg, "  ")
        todo == Contains(arg, "TODO") \/ Contains(arg, "FIXME")
        Holds(m) == \/ m = WildcardMsg /\ wildcard
                    \/ m = IndentMsg /\ indent
                    \/ m = TodoMsg /\ todo
    IN  /\ ret = SelectSeq(<<WildcardMsg, IndentMsg, TodoMsg>>, Holds)
        /\ ret = <<>> <=> ~wildcard /\ ~indent /\ ~todo

\* all three conditions hold of the text
C6_Witness ==
  /\ fn = "suggest_improvements"
  /\ Len(ret) = 3

\* the words of a text by position: a word starts where a character that is
\* no whitespace follows whitespace or nothing, and ends before the next
\* whitespace
WordStarts(T) ==
  {i \in 1..Len(T) : Ch(T, i) \notin Whitespace
                       /\ (i = 1 \/ Ch(T, i - 1) \in Whitespace)}

WordAt(T, i) ==
  SubSeq(T, i, CHOOSE e \in i..Len(T) :
                 /\ \A j \in i..e : Ch(T, j) \notin Whitespace
                 /\ (e = Len(T) \/ Ch(T, e + 1) \in Whitespace))

WordCount(T, w) == Cardinality({i \in WordStarts(T) : WordAt(T, i) = w})

\* C7: extract_patterns(T) holds exactly the whitespace-delimited words that
\* occur at least twice in T, each with its number of occurrences; a text of
\* whitespace only, or empty, gives the empty table.
C7_PatternsAreRepeatedWords ==
  fn = "extract_patterns" =>
    /\ DOMAIN ret = {w \in {WordAt(arg, i) : i \in WordStarts(arg)} :
                       WordCount(arg, w) >= 2}
    /\ \A w \in DOMAIN ret : ret[w] = WordCount(arg, w)
    /\ WordStarts(arg) = {} => DOMAIN ret = {}

\* a text with a word occurring three times beside a word occurring once
C7_Witness ==
  /\ fn = "extract_patterns"
  /\ \E w \in DOMAIN ret : ret[w] = 3
  /\ \E i \in WordStarts(arg) : WordCount(arg, WordAt(arg, i)) = 1

\* the lines of a text by position: a line starts at the beginning and
\* behind every newline, and ends before the next newline
LineStarts(T) == {1} \cup {i + 1 : i \in {j \in 1..Len(T) : Ch(T, j) = "\n"}}

LineEnd(T, a) == SkipTo(T, a, {"\n"}) - 1

\* empty or whitespace only
IsBlank(T, a) == \A j \in a..LineEnd(T, a) : Ch(T, j) \in Whitespace

\* its first character that is no whitespace is '#'
IsComment(T, a) ==
  \E j \in a..LineEnd(T, a) :
    /\ Ch(T, j) = "#"
    /\ \A k \in a..(j - 1) : Ch(T, k) \in Whitespace

\* C8: the readability metric of analyze(T) is at most the number of lines
\* of T, and equals it exactly when no line of T is blank or comment-only.
C8_ReadabilityBound ==
  fn = "analyze" =>
    /\ ret.metrics.readability <= Lines(arg)
    /\ ret.metrics.readability = Lines(arg)
         <=> \A a \in LineStarts(arg) : ~IsBlank(arg, a) /\ ~IsComment(arg, a)

\* a text of several lines, none blank, one an indented comment
C8_Witness ==
  /\ fn = "analyze"
  /\ Lines(arg) >= 3
  /\ \A a \in LineStarts(arg) : ~IsBlank(arg, a)
  /\ \E a \in LineStarts(arg) : IsComment(arg, a) /\ Ch(arg, a) # "#"
  /\ ret.metrics.readability = Lines(arg) - 1

MultiLineLoop == "for\ni\nin\nrange(len(xs))"

\* C9, as claimed: a loop header whose tokens are separated by newlines is
\* left unchanged, and optimize_loops never changes the number of lines.
C9_LoopsKeepLineCount ==
  fn = "optimize_loops" =>
    /\ Lines(ret) = Lines(arg)
    /\ StartsWith(arg, MultiLineLoop) => StartsWith(ret, MultiLineLoop)

\* C9, amended: the tokens of the header may be separated by any whitespace,
\* newlines included; a header spread over several lines is rewritten onto
\* one line, so optimize_loops never adds a line and removes the newlines a
\* rewritten header held; a text without 'range(len(' is left unchanged.
C9_LoopsNeverAddLines ==
  fn = "optimize_loops" =>
    /\ Lines(ret) <= Lines(arg)
    /\ StartsWith(arg, MultiLineLoop) =>
         /\ StartsWith(ret, "for i in xs")
         /\ Lines(ret) <= Lines(arg) - 3
    /\ StartsWith(arg, "for i in range(len(xs))") => StartsWith(ret, "for i in xs")
    /\ ~Contains(arg, "range(len(") => ret = arg

\* optimize_loops was called on a header spread over four lines
C9_Witness ==
  /\ fn = "optimize_loops"
  /\ StartsWith(arg, MultiLineLoop)
  /\ Lines(ret) < Lines(arg)

====
